---- MODULE Spec2Model ----
(***************************************************************************)
(* OMR answer-sheet pipeline (services/omr-python/app/pipeline.py) and the *)
(* /scan endpoint that calls it (services/omr-python/app/main.py).         *)
(*                                                                         *)
(* Fill scores, thresholds and the diagnostics derived from them are real  *)
(* numbers in the program.  They are held here as integers counting        *)
(* hundred-thousandths (0.22 is 22000, 1.0 is 100000), and every fill the  *)
(* model draws is a multiple of 4 units, so the mean of the four losing    *)
(* fills of a row is an integer and all comparisons are exact.             *)
(***************************************************************************)
EXTENDS Integers, Sequences, FiniteSets, TLC

VARIABLES
    \* ---- one question row of _scan_answers (specification SpecRow)
    rowThreshold,   \* options["threshold"]: <<>> for None, <<v>> for the number v
    rowFills,       \* raw_densities: option label -> fill
    rowMinInk,      \* min_ink_threshold
    rowDetail,      \* the record appended to details for the row
    rowBefore,      \* "selected" of the scan before the top fill was raised, or "None"
    \* ---- one request: main.scan and run_pipeline (specification Spec)
    pc,             \* where the request is
    caller,         \* "scan": through the /scan endpoint; "direct": run_pipeline called directly
    form,           \* the manualCorners form field of /scan
    manual_corners_invalid,  \* main.scan: the flag _parse_manual_corners returned
    image,          \* image_bytes: what decoding and detection will find in them
    options,        \* the options dict given to run_pipeline
    answer_key,     \* run_pipeline locals, named as in the code
    threshold,
    original,       \* <<original_w, original_h>>
    called,         \* the detection strategies called so far, in call order
    markers,
    corners,
    corner_mode,
    warped,         \* [from |-> "image" or "rectified", size |-> <<w, h>>]
    gray,           \* <<width, height>> of the image that is scored
    warnings,
    derived_layout,
    details,
    result,         \* what run_pipeline returned (details and answers apart)
    response,       \* what /scan answered beside the result
    \* ---- _normalize_answer_key on its own (specification SpecKey)
    keyRaw,         \* the raw answer key: <<>> for None, <<items>> for a dict
    keyOnce,        \* <<>>, or <<d>> with d the normalized key
    keyTwice,       \* <<>>, or <<d>> with d the normalized key normalized again
    \* ---- _order_points on its own (specification SpecQuad)
    quadPoints,     \* four points <<x, y>>, as the caller passes them
    quadOrdered,    \* <<>>, or _order_points(quadPoints)
    quadAgain,      \* <<>>, or _order_points(quadOrdered)
    quadPermuted,   \* <<>>, or the same four points in another order
    quadPermutedOrdered,  \* <<>>, or _order_points(quadPermuted)
    \* ---- several invocations in one process (specification SpecCalls)
    fill_debug_counter,   \* the module-level _fill_debug_counter[0]
    calls,          \* invocation -> where it is and what it holds
    \* ---- _bubble_fill_ratio on its own (specification SpecFill)
    bubble,         \* the bubble scored: centre, image size, mean grey of ring and core
    bubbleFill,     \* <<>>, or <<f>> with f the fill returned
    bubbleBefore,   \* <<>>, or <<[ink, fill]>> of the scoring before the signal rose
    \* ---- the row window of _derive_layout_from_circles (specification SpecWindow)
    yClusters,      \* the row clusters _cluster_1d returned
    yKept           \* <<>>, or <<rows>> with rows the y_centers kept (<<>> inside: None)

rowVars == <<rowThreshold, rowFills, rowMinInk, rowDetail, rowBefore>>

keyVars == <<keyRaw, keyOnce, keyTwice>>

quadVars == <<quadPoints, quadOrdered, quadAgain, quadPermuted, quadPermutedOrdered>>

runVars == <<fill_debug_counter, calls>>

fillVars == <<bubble, bubbleFill, bubbleBefore>>

windowVars == <<yClusters, yKept>>

\* what a request through run_pipeline leaves alone
sideVars == <<rowVars, keyVars, quadVars, runVars, fillVars, windowVars>>

callVars == <<caller, form, manual_corners_invalid, image, options>>

localVars == <<answer_key, threshold, original, called, markers, corners, corner_mode,
               warped, gray, warnings, derived_layout, details, result>>

vars == <<sideVars, pc, callVars, localVars, response>>

----------------------------------------------------------------------------
(* Numbers of the program, in hundred-thousandths. *)

\* one whole (fill 1.0)
One == 100 * 1000

\* FORM_LAYOUT["minRelativeRatio"] = 0.22
MinRelativeRatio == 22000

\* FORM_LAYOUT["minGapRatio"] = 0.08
MinGapRatio == 8000

\* the default of options.get("threshold") or 0.22
DefaultThreshold == 22000

\* lower clamp of min_ink_threshold, 0.08
MinInkLow == 8000

\* upper clamp of min_ink_threshold, 0.9
MinInkHigh == 90000

\* marked_cutoff = max(min_ink_threshold, top_fill - 0.08)
MarkedWindow == 8000

\* the tolerant fallback admits top >= max(0.05, min_ink_threshold - 0.05)
FallbackSlack == 5000

\* FORM_LAYOUT["options"]
Options == <<"A", "B", "C", "D", "E">>

OptionSet == {Options[i] : i \in 1..Len(Options)}

Max(a, b) == IF a >= b THEN a ELSE b

Min(a, b) == IF a <= b THEN a ELSE b

\* x * 1.25
Times125(x) == (x * 125) \div 100

\* round(x, 4): to the nearest ten units (ten hundred-thousandths)
Round4(x) ==
    LET r == x % 10
    IN  IF r < 5 THEN x - r ELSE x - r + 10

----------------------------------------------------------------------------
(* run_pipeline, line 926: threshold = float(options.get("threshold") or 0.22) *)

\* requested is <<>> when the option is absent (None), <<v>> when it is v
Threshold(requested) ==
    IF requested = <<>> \/ requested[1] = 0 THEN DefaultThreshold ELSE requested[1]

\* _scan_answers, line 828
MinInkThreshold(requested) == Max(MinInkLow, Min(MinInkHigh, requested))

----------------------------------------------------------------------------
(* _scan_answers, the per-row decision (lines 835-895).                    *)
(* A row is the sequence raw_densities of [opt, fill] in option order; the *)
(* pixel x of a bubble is only used to draw the debug overlay.             *)

RawDensities(fills) == [i \in 1..Len(Options) |-> [opt |-> Options[i], fill |-> fills[Options[i]]]]

\* sorted(..., key=fill, reverse=True) is stable: equal fills keep option order
RECURSIVE InsertDesc(_, _)
InsertDesc(item, sorted) ==
    IF sorted = <<>> THEN <<item>>
    ELSE IF Head(sorted).fill >= item.fill
         THEN <<Head(sorted)>> \o InsertDesc(item, Tail(sorted))
         ELSE <<item>> \o sorted

RECURSIVE SortDesc(_)
SortDesc(seq) ==
    IF seq = <<>> THEN <<>>
    ELSE InsertDesc(seq[Len(seq)], SortDesc(SubSeq(seq, 1, Len(seq) - 1)))

RECURSIVE SumFills(_)
SumFills(seq) == IF seq = <<>> THEN 0 ELSE Head(seq).fill + SumFills(Tail(seq))

\* float(np.mean(other_scores))
RowMean(others) == SumFills(others) \div Len(others)

\* variant: only fills equal to the row maximum count as marked
MarkedOptionsTopOnly(raw, top_fill, min_ink_threshold) ==
    LET keep(item) == item.fill >= min_ink_threshold /\ item.fill >= top_fill
        kept == SelectSeq(raw, keep)
    IN  [i \in 1..Len(kept) |-> kept[i].opt]

\* lines 860-864
MarkedOptions(raw, top_fill, min_ink_threshold) ==
    LET marked_cutoff == Max(min_ink_threshold, top_fill - MarkedWindow)
        keep(item) == item.fill >= min_ink_threshold /\ item.fill >= marked_cutoff
        kept == SelectSeq(raw, keep)
    IN  [i \in 1..Len(kept) |-> kept[i].opt]

\* line 869
StrictTest(top_fill, contrast, confidence, min_ink_threshold) ==
    /\ top_fill >= min_ink_threshold
    /\ contrast >= MinRelativeRatio
    /\ confidence >= MinGapRatio

\* variant: the fallback reuses the strict minimums (the 1.25 factor is lost)
TolerantTestUnscaled(top_fill, contrast, confidence, min_ink_threshold) ==
    /\ top_fill >= Max(FallbackSlack, min_ink_threshold - FallbackSlack)
    /\ contrast >= MinRelativeRatio
    /\ confidence >= MinGapRatio

\* line 873
TolerantTest(top_fill, contrast, confidence, min_ink_threshold) ==
    /\ top_fill >= Max(FallbackSlack, min_ink_threshold - FallbackSlack)
    /\ contrast >= Times125(MinRelativeRatio)
    /\ confidence >= Times125(MinGapRatio)

\* variant: a saturated top fill (clipped to 1.0) is rejected as unreadable
SelectedUnsaturated(top, contrast, confidence, min_ink_threshold) ==
    IF top.fill >= One THEN ""
    ELSE IF StrictTest(top.fill, contrast, confidence, min_ink_threshold) THEN top.opt
    ELSE IF TolerantTest(top.fill, contrast, confidence, min_ink_threshold) THEN top.opt
    ELSE ""

\* lines 851, 869-874
Selected(top, contrast, confidence, min_ink_threshold) ==
    IF StrictTest(top.fill, contrast, confidence, min_ink_threshold) THEN top.opt
    ELSE IF TolerantTest(top.fill, contrast, confidence, min_ink_threshold) THEN top.opt
    ELSE ""

\* lines 876-880; has_key is the truth value of the normalized answer key
Correct(has_key, expected, selected) ==
    IF has_key /\ expected # "None"
    THEN (IF selected # "" /\ selected = expected THEN "True" ELSE "False")
    ELSE "None"

\* one pass of the loop body at lines 835-895
RowDecision(question_number, fills, min_ink_threshold, has_key, expected) ==
    LET raw == RawDensities(fills)
        row_densities == SortDesc(raw)
        top == row_densities[1]
        second == row_densities[2]
        row_mean == RowMean(Tail(row_densities))
        confidence == top.fill - second.fill
        contrast == top.fill - row_mean
        selected == Selected(top, contrast, confidence, min_ink_threshold)
        marked_options == MarkedOptions(raw, top.fill, min_ink_threshold)
    IN  [ question |-> question_number,
          selected |-> selected,
          markedOptions |-> marked_options,
          multipleMarks |-> Len(marked_options) > 1,
          correct |-> Correct(has_key, expected, selected),
          confidence |-> Round4(confidence),
          ink |-> Round4(top.fill),
          contrast |-> Round4(contrast) ]

----------------------------------------------------------------------------
(* Text.  A Python str is a sequence of one-character strings here, so that *)
(* prefixes, digits and case can be looked at.                              *)

Digits == <<"0", "1", "2", "3", "4", "5", "6", "7", "8", "9">>

LowerCase == <<"a", "b", "c", "d", "e", "q", "x">>

UpperCase == <<"A", "B", "C", "D", "E", "Q", "X">>

IsDigitChar(c) == \E i \in 1..Len(Digits) : Digits[i] = c

DigitValue(c) == (CHOOSE i \in 1..Len(Digits) : Digits[i] = c) - 1

\* str.lower() and str.upper(), one character
ToLower(c) ==
    IF \E i \in 1..Len(UpperCase) : UpperCase[i] = c
    THEN LowerCase[CHOOSE i \in 1..Len(UpperCase) : UpperCase[i] = c]
    ELSE c

ToUpper(c) ==
    IF \E i \in 1..Len(LowerCase) : LowerCase[i] = c
    THEN UpperCase[CHOOSE i \in 1..Len(LowerCase) : LowerCase[i] = c]
    ELSE c

\* str.isdigit()
IsDigitStr(str) == Len(str) > 0 /\ \A i \in 1..Len(str) : IsDigitChar(str[i])

\* int(str) of a digit string
RECURSIVE IntOfStr(_)
IntOfStr(str) ==
    IF str = <<>> THEN 0
    ELSE 10 * IntOfStr(SubSeq(str, 1, Len(str) - 1)) + DigitValue(str[Len(str)])

\* str(n) of a natural number
RECURSIVE StrOfInt(_)
StrOfInt(n) ==
    IF n < 10 THEN <<Digits[n + 1]>>
    ELSE StrOfInt(n \div 10) \o <<Digits[(n % 10) + 1]>>

\* str.strip()
RECURSIVE StripLeft(_)
StripLeft(str) ==
    IF str # <<>> /\ Head(str) = " " THEN StripLeft(Tail(str)) ELSE str

RECURSIVE StripRight(_)
StripRight(str) ==
    IF str # <<>> /\ str[Len(str)] = " " THEN StripRight(SubSeq(str, 1, Len(str) - 1)) ELSE str

Strip(str) == StripRight(StripLeft(str))

\* key_str.lower().startswith("q_")
StartsWithQ(str) == Len(str) >= 2 /\ ToLower(str[1]) = "q" /\ str[2] = "_"

\* f"q_{question_number}"
QuestionId(n) == <<"q", "_">> \o StrOfInt(n)

----------------------------------------------------------------------------
(* _normalize_answer_key, lines 535-548.  The raw option is <<>> for None   *)
(* and <<d>> for a dict d, a sequence of <<key, value>> pairs in insertion  *)
(* order.  The normalized dict is a function from identifiers to letters.   *)

\* variant: the digits are kept as written
NormalizeKeyStrKeepZeros(key) ==
    LET key_str == IF StartsWithQ(key) THEN SubSeq(key, 3, Len(key)) ELSE key
    IN  IF IsDigitStr(key_str) THEN <<"q", "_">> \o key_str ELSE key_str

\* lines 540-544
NormalizeKeyStr(key) ==
    LET key_str == IF StartsWithQ(key) THEN SubSeq(key, 3, Len(key)) ELSE key
    IN  IF IsDigitStr(key_str) THEN <<"q", "_">> \o StrOfInt(IntOfStr(key_str)) ELSE key_str

\* line 545
NormalizeValueStr(value) ==
    LET stripped == Strip(value)
    IN  [i \in 1..Len(stripped) |-> ToUpper(stripped[i])]

DictPut(d, k, v) == [x \in (DOMAIN d) \cup {k} |-> IF x = k THEN v ELSE d[x]]

RECURSIVE NormalizeItems(_)
NormalizeItems(items) ==
    IF items = <<>> THEN <<>>
    ELSE LET before == NormalizeItems(SubSeq(items, 1, Len(items) - 1))
             last == items[Len(items)]
             value_str == NormalizeValueStr(last[2])
         IN  IF value_str # <<>>
             THEN DictPut(before, NormalizeKeyStr(last[1]), value_str[1])
             ELSE before

NormalizeAnswerKey(raw) ==
    IF raw = <<>> \/ raw[1] = <<>> THEN <<>> ELSE NormalizeItems(raw[1])

\* answer_key.get(question_id), "None" when there is no entry
Expected(key, question_id) ==
    IF question_id \in DOMAIN key THEN key[question_id] ELSE "None"

----------------------------------------------------------------------------
(* Images and geometry.  An image is known by its size <<width, height>>.   *)

\* _read_exif_orientation, lines 39-110: <<>> for None, <<n>> for the tag value
ReadExifOrientation(exif) ==
    CASE exif = "absent" -> <<>>
      [] exif = "corrupt" -> <<>>
      [] exif = "normal" -> <<1>>
      [] exif = "rotate90" -> <<6>>

\* _apply_exif_orientation, lines 113-138: 5..8 turn the image by a quarter
ApplyExifOrientation(size, orientation) ==
    IF orientation \in {5, 6, 7, 8} THEN <<size[2], size[1]>> ELSE size

\* _decode_image, lines 272-279
DecodedSize(img) ==
    LET orientation == ReadExifOrientation(img.exif)
    IN  IF orientation # <<>> /\ orientation[1] # 0 /\ orientation[1] # 1
        THEN ApplyExifOrientation(img.size, orientation[1])
        ELSE img.size

\* variant: an image narrower than the target is not enlarged
ResizeToWidthShrinkOnly(size, target_width) ==
    IF size[1] <= target_width THEN size
    ELSE <<target_width, Max(1, (size[2] * target_width) \div size[1])>>

\* _resize_to_width, lines 524-532
ResizeToWidth(size, target_width) ==
    IF size[1] = 0 THEN size
    ELSE IF size[1] = target_width THEN size
    ELSE <<target_width, Max(1, (size[2] * target_width) \div size[1])>>

\* the width every scored image is resized to (line 996)
CanonicalWidth == 2000

\* _warp_perspective, lines 501-521: the rectified image, or the image itself
\* when the quadrilateral is under 50 pixels wide or high
RectifiedSizes == {<<1100, 1500>>}

WarpResults(size) ==
    {[from |-> "rectified", size |-> r] : r \in RectifiedSizes}
      \cup {[from |-> "image", size |-> size]}

----------------------------------------------------------------------------
(* The corner cascade of run_pipeline, lines 950-994. *)

\* variant: the order announced by the comment at line 954 (manual > auto > skip)
CornerBranchManualFirst(skip_warp, manual_corners) ==
    IF manual_corners # "None" THEN "manual"
    ELSE IF skip_warp THEN "skip"
    ELSE "auto"

\* lines 955, 960, 979: which branch of the if / elif / else is taken
CornerBranch(skip_warp, manual_corners) ==
    IF skip_warp THEN "skip"
    ELSE IF manual_corners # "None" THEN "manual"
    ELSE "auto"

\* np.array(manual_corners, dtype="float32") at line 963: the array's shape, or
\* "raises" when an entry is not a number
ManualArray(manual_corners) ==
    CASE manual_corners = "four" -> "4x2"
      [] manual_corners = "three" -> "3x2"
      [] manual_corners = "non_numeric" -> "raises"

----------------------------------------------------------------------------
(* main.py, _parse_manual_corners (lines 33-60): the form field is absent,  *)
(* a JSON list of four [x, y] pairs, a JSON list of three pairs, a JSON     *)
(* list of four entries that are not numbers, or not JSON at all.          *)

ParseManualCorners(value) ==
    CASE value = "absent" -> [corners |-> "None", invalid |-> FALSE]
      [] value = "four_json" -> [corners |-> "four", invalid |-> FALSE]
      [] value = "three_json" -> [corners |-> "None", invalid |-> TRUE]
      [] value = "non_numeric_json" -> [corners |-> "None", invalid |-> TRUE]
      [] value = "not_json" -> [corners |-> "None", invalid |-> TRUE]

----------------------------------------------------------------------------
(* The answer grid: FORM_LAYOUT["columns"], lines 21-28. *)

QuestionsCount == 52

Columns ==
    << [questionsStart |-> 1, questionsCount |-> QuestionsCount],
       [questionsStart |-> 53, questionsCount |-> QuestionsCount],
       [questionsStart |-> 105, questionsCount |-> QuestionsCount] >>

\* rows are scored column by column (lines 775-824; 741-773 with a derived layout)
NumRows == Len(Columns) * QuestionsCount

\* the question number of the i-th row scored
QuestionNumber(i) ==
    Columns[((i - 1) \div QuestionsCount) + 1].questionsStart + ((i - 1) % QuestionsCount)

\* the place in details of question n
RowIndex(n) ==
    LET c == CHOOSE k \in 1..Len(Columns) :
                 /\ Columns[k].questionsStart <= n
                 /\ n < Columns[k].questionsStart + Columns[k].questionsCount
    IN  (c - 1) * QuestionsCount + (n - Columns[c].questionsStart) + 1

----------------------------------------------------------------------------
(* What a call is given.  Sheets are what _bubble_fill_ratio reads off the  *)
(* scored image: one row of five fills per question.                        *)

ManualForms == {"absent", "four_json", "three_json", "non_numeric_json"}

ManualOptions == {"None", "four", "three", "non_numeric"}

ImageSizes == {<<2000, 2715>>, <<3000, 1001>>}

ExifKinds == {"corrupt", "rotate90"}

Images ==
    {[decodable |-> FALSE, size |-> <<0, 0>>, exif |-> "absent"]}
      \cup {[decodable |-> TRUE, size |-> z, exif |-> e] : z \in ImageSizes, e \in ExifKinds}

ThresholdOptions == {<<>>, <<35000>>}

\* {"Q_1": "b ", "2": "A", "q_003": "c", "5": " ", "156": "x", "name": "E"}
Key1 ==
    << << <<"Q", "_", "1">>, <<"b", " ">> >>,
       << <<"2">>, <<"A">> >>,
       << <<"q", "_", "0", "0", "3">>, <<"c">> >>,
       << <<"5">>, <<" ">> >>,
       << <<"1", "5", "6">>, <<"x">> >>,
       << <<"n", "a", "m", "e">>, <<"E">> >> >>

AnswerKeyOptions == {<<>>, <<Key1>>}

Sheets == {"blank", "all", "fourteen", "fifteen", "mixed", "smudged"}

Mark(o, f) == [p \in OptionSet |-> IF p = o THEN f ELSE 0]

OptionOf(q) == Options[((q - 1) % Len(Options)) + 1]

SheetRow(sheet, q) ==
    CASE sheet = "blank" -> Mark("A", 0)
      [] sheet = "all" -> Mark(OptionOf(q), One)
      [] sheet = "fourteen" -> IF q <= 14 THEN Mark(OptionOf(q), One) ELSE Mark("A", 0)
      [] sheet = "fifteen" -> IF q <= 15 THEN Mark(OptionOf(q), One) ELSE Mark("A", 0)
      [] sheet = "mixed" ->
           IF q % 3 = 0 THEN [p \in OptionSet |-> IF p \in {"A", "B"} THEN One ELSE 0]
           ELSE IF q % 3 = 1 THEN [p \in OptionSet |-> IF p = "B" THEN 30000
                                                        ELSE IF p = "D" THEN 10000 ELSE 0]
           ELSE Mark(OptionOf(q), 22000)
      [] sheet = "smudged" -> [p \in OptionSet |-> IF p = "E" THEN 22000 ELSE 30000]

\* what cv2.HoughCircles and the clustering find when smart_align is on:
\* no circles, or the numbers of x and y clusters
CircleFinds ==
    { [found |-> FALSE, x_centers |-> 0, y_centers |-> 0],
      [found |-> TRUE, x_centers |-> 15, y_centers |-> 52],
      [found |-> TRUE, x_centers |-> 15, y_centers |-> 45],
      [found |-> TRUE, x_centers |-> 14, y_centers |-> 52],
      [found |-> TRUE, x_centers |-> 16, y_centers |-> 60] }

----------------------------------------------------------------------------
(* _derive_layout_from_circles, lines 564-612, on cluster counts: <<>> for  *)
(* None, <<layout>> otherwise.                                              *)

ExpectedRows == 52

ExpectedXCenters == 15

MinYCenters == 40

\* variant: the row count is not compared with the expected one
DeriveLayoutAnyRows(find) ==
    IF ~find.found THEN <<>>
    ELSE IF find.x_centers < ExpectedXCenters \/ find.y_centers < MinYCenters THEN <<>>
    ELSE LET rows == IF find.y_centers > ExpectedRows THEN ExpectedRows ELSE find.y_centers
         IN  << [rows |-> rows, columns |-> ExpectedXCenters \div Len(Options)] >>

DeriveLayout(find) ==
    IF ~find.found THEN <<>>
    ELSE IF find.x_centers < ExpectedXCenters \/ find.y_centers < MinYCenters THEN <<>>
    ELSE LET rows == IF find.y_centers > ExpectedRows THEN ExpectedRows ELSE find.y_centers
         IN  IF rows # ExpectedRows THEN <<>>
             ELSE << [rows |-> rows, columns |-> ExpectedXCenters \div Len(Options)] >>

----------------------------------------------------------------------------
(* The result of run_pipeline, lines 1015-1061. *)

AppendIf(seq, cond, tag) == IF cond THEN Append(seq, tag) ELSE seq

\* variant: every entry of answers counts, selected or not
MarkedCountAll(rows) == Len(rows)

\* line 1015
MarkedCount(rows) == Cardinality({i \in 1..Len(rows) : rows[i].selected # ""})

\* lines 1016-1020
ReviewCount(rows) ==
    Cardinality({i \in 1..Len(rows) : rows[i].selected # "" /\ rows[i].confidence < 12000})

\* variant: any positive contrast counts
AmbiguousCountPositive(rows) ==
    Cardinality({i \in 1..Len(rows) :
        rows[i].selected = "" /\ rows[i].ink >= 22000 /\ rows[i].contrast > 0})

\* lines 1021-1027
AmbiguousCount(rows) ==
    Cardinality({i \in 1..Len(rows) :
        rows[i].selected = "" /\ rows[i].ink >= 22000 /\ rows[i].contrast >= 12000})

\* variant: every graded row counts, right or wrong
ScoreGraded(key, rows) ==
    IF key # <<>> THEN Cardinality({i \in 1..Len(rows) : rows[i].correct # "None"}) ELSE 0

\* lines 1040-1042
Score(key, rows) ==
    IF key # <<>> THEN Cardinality({i \in 1..Len(rows) : rows[i].correct = "True"}) ELSE 0

\* variant: fifteen marks still count as few
FinalWarningsLowInclusive(upstream, rows, cornersv, layout) ==
    LET marked_count == MarkedCount(rows)
        w1 == IF marked_count = 0 THEN Append(upstream, "no_marks_detected")
              ELSE IF marked_count <= 15 THEN Append(upstream, "low_marks_detected")
              ELSE upstream
        w2 == AppendIf(w1, cornersv = "None" /\ layout = <<>>, "alignment_unreliable")
    IN  AppendIf(w2, AmbiguousCount(rows) > 0, "needs_review")

\* lines 1029-1038
FinalWarnings(upstream, rows, cornersv, layout) ==
    LET marked_count == MarkedCount(rows)
        w1 == IF marked_count = 0 THEN Append(upstream, "no_marks_detected")
              ELSE IF marked_count < 15 THEN Append(upstream, "low_marks_detected")
              ELSE upstream
        w2 == AppendIf(w1, cornersv = "None" /\ layout = <<>>, "alignment_unreliable")
    IN  AppendIf(w2, AmbiguousCount(rows) > 0, "needs_review")

\* result["answers"]: question number n stands for the identifier q_<n>
Answers(rows) ==
    [n \in {QuestionNumber(i) : i \in 1..Len(rows)} |-> rows[RowIndex(n)].selected]

\* lines 1044-1061; result["details"] is the list details itself, and
\* result["answers"] is Answers(details)
Result(key, rows, size, upstream, orig, cornersv, mode, layout) ==
    [ score |-> Score(key, rows),
      dimensions |-> [width |-> size[1], height |-> size[2]],
      warnings |-> FinalWarnings(upstream, rows, cornersv, layout),
      meta |-> [ originalWidth |-> orig[1],
                 originalHeight |-> orig[2],
                 markersFound |-> cornersv # "None",
                 cornerMode |-> mode,
                 cornerPoints |-> cornersv,
                 smartAlignUsed |-> layout # <<>>,
                 markedCount |-> MarkedCount(rows),
                 reviewCount |-> ReviewCount(rows),
                 ambiguousCount |-> AmbiguousCount(rows) ] ]

----------------------------------------------------------------------------
(* Specification Spec: one request, through /scan or straight into          *)
(* run_pipeline, followed statement by statement.                           *)

NoRecord == [none |-> TRUE]

RowIdle ==
    /\ rowThreshold = <<>>
    /\ rowFills = Mark("A", 0)
    /\ rowMinInk = MinInkThreshold(Threshold(<<>>))
    /\ rowDetail = RowDecision(1, Mark("A", 0), MinInkThreshold(Threshold(<<>>)), FALSE, "None")
    /\ rowBefore = "None"

PipelineIdle ==
    /\ pc = "idle"
    /\ caller = "none"
    /\ form = "absent"
    /\ manual_corners_invalid = FALSE
    /\ image = [decodable |-> FALSE, size |-> <<0, 0>>, exif |-> "absent"]
    /\ options = NoRecord
    /\ answer_key = <<>>
    /\ threshold = 0
    /\ original = <<0, 0>>
    /\ called = <<>>
    /\ markers = "None"
    /\ corners = "None"
    /\ corner_mode = "unset"
    /\ warped = NoRecord
    /\ gray = <<0, 0>>
    /\ warnings = <<>>
    /\ derived_layout = <<>>
    /\ details = <<>>
    /\ result = NoRecord
    /\ response = NoRecord

KeyIdle ==
    /\ keyRaw = <<>>
    /\ keyOnce = <<>>
    /\ keyTwice = <<>>

QuadIdle ==
    /\ quadPoints = <<>>
    /\ quadOrdered = <<>>
    /\ quadAgain = <<>>
    /\ quadPermuted = <<>>
    /\ quadPermutedOrdered = <<>>

\* the invocations that run in the process
CallIds == {1, 2}

\* an invocation that has not started
IdleCall ==
    [ pc |-> "idle", bytes |-> "none", threshold |-> <<>>, k |-> 0, loaded |-> 0,
      fills |-> <<>>, printed |-> 0, details |-> <<>> ]

RunsIdle ==
    /\ fill_debug_counter = 0
    /\ calls = [i \in CallIds |-> IdleCall]

\* no bubble: a centre outside an empty image
FillIdle ==
    /\ bubble = [x |-> 0, y |-> 0, width |-> 0, height |-> 0, mean_ring |-> 0, mean_inner |-> 0]
    /\ bubbleFill = <<>>
    /\ bubbleBefore = <<>>

WindowIdle ==
    /\ yClusters = <<>>
    /\ yKept = <<>>

Init == RowIdle /\ PipelineIdle /\ KeyIdle /\ QuadIdle /\ RunsIdle /\ FillIdle /\ WindowIdle

\* main.scan, lines 84-119: the form is read and run_pipeline is called
Scan ==
    /\ pc = "idle"
    /\ \E f \in ManualForms, img \in Images, k \in AnswerKeyOptions, t \in ThresholdOptions,
          sa \in BOOLEAN, sw \in BOOLEAN :
          /\ form' = f
          /\ image' = img
          /\ manual_corners_invalid' = ParseManualCorners(f).invalid
          /\ options' = [ answer_key |-> k, threshold |-> t, smart_align |-> sa,
                          skip_warp |-> sw, manual_corners |-> ParseManualCorners(f).corners ]
    /\ caller' = "scan"
    /\ pc' = "called"
    /\ UNCHANGED <<sideVars, localVars, response>>

\* run_pipeline called by other code, with any manual_corners value
Call ==
    /\ pc = "idle"
    /\ \E m \in ManualOptions, img \in Images, k \in AnswerKeyOptions, t \in ThresholdOptions,
          sa \in BOOLEAN, sw \in BOOLEAN :
          /\ image' = img
          /\ options' = [ answer_key |-> k, threshold |-> t, smart_align |-> sa,
                          skip_warp |-> sw, manual_corners |-> m ]
    /\ caller' = "direct"
    /\ pc' = "called"
    /\ UNCHANGED <<sideVars, form, manual_corners_invalid, localVars, response>>

\* run_pipeline, lines 924-932
ReadOptions ==
    /\ pc = "called"
    /\ answer_key' = NormalizeAnswerKey(options.answer_key)
    /\ threshold' = Threshold(options.threshold)
    /\ pc' = "decode"
    /\ UNCHANGED <<sideVars, callVars, original, called, markers, corners, corner_mode,
                   warped, gray, warnings, derived_layout, details, result, response>>

\* lines 934-952, the image decodes
DecodeImage ==
    /\ pc = "decode"
    /\ image.decodable
    /\ original' = DecodedSize(image)
    /\ warnings' = <<>>
    /\ corners' = "None"
    /\ corner_mode' = "auto"
    /\ pc' = "cascade"
    /\ UNCHANGED <<sideVars, callVars, answer_key, threshold, called, markers,
                   warped, gray, derived_layout, details, result, response>>

\* line 271: raise ValueError("invalid_image_data")
DecodeFails ==
    /\ pc = "decode"
    /\ ~image.decodable
    /\ pc' = "raised"
    /\ UNCHANGED <<sideVars, callVars, localVars, response>>

\* lines 955-959
SkipWarp ==
    /\ pc = "cascade"
    /\ CornerBranch(options.skip_warp, options.manual_corners) = "skip"
    /\ warnings' = Append(warnings, "warp_skipped_by_user")
    /\ warped' = [from |-> "image", size |-> original]
    /\ corner_mode' = "skipped"
    /\ pc' = "warped"
    /\ UNCHANGED <<sideVars, callVars, answer_key, threshold, original, called, markers,
                   corners, gray, derived_layout, details, result, response>>

\* lines 960-978
ManualCorners ==
    /\ pc = "cascade"
    /\ CornerBranch(options.skip_warp, options.manual_corners) = "manual"
    /\ LET array == ManualArray(options.manual_corners)
       IN  CASE array = "4x2" ->
                  /\ corners' = "4x2"
                  /\ warped' \in WarpResults(original)
                  /\ corner_mode' = "manual"
                  /\ UNCHANGED warnings
             [] array = "raises" ->
                  /\ warnings' = Append(warnings, "manual_corners_error")
                  /\ warped' = [from |-> "image", size |-> original]
                  /\ corner_mode' = "manual_error"
                  /\ UNCHANGED corners
             [] OTHER ->
                  /\ corners' = array
                  /\ warnings' = Append(warnings, "invalid_manual_corners")
                  /\ warped' = [from |-> "image", size |-> original]
                  /\ corner_mode' = "manual_invalid"
    /\ pc' = "warped"
    /\ UNCHANGED <<sideVars, callVars, answer_key, threshold, original, called, markers,
                   gray, derived_layout, details, result, response>>

\* line 980: markers = _find_marker_corners(gray_search)
FindMarkerCorners ==
    /\ pc = "cascade"
    /\ CornerBranch(options.skip_warp, options.manual_corners) = "auto"
    /\ markers' \in {"None", "4x2"}
    /\ called' = Append(called, "_find_marker_corners")
    /\ pc' = "markers"
    /\ UNCHANGED <<sideVars, callVars, answer_key, threshold, original, corners, corner_mode,
                   warped, gray, warnings, derived_layout, details, result, response>>

\* line 981, markers is not None
UseMarkers ==
    /\ pc = "markers"
    /\ markers # "None"
    /\ corners' = markers
    /\ pc' = "detected"
    /\ UNCHANGED <<sideVars, callVars, answer_key, threshold, original, called, markers,
                   corner_mode, warped, gray, warnings, derived_layout, details, result,
                   response>>

\* line 981, markers is None: corners = _find_document_corners(gray_search)
FindDocumentCorners ==
    /\ pc = "markers"
    /\ markers = "None"
    /\ corners' \in {"None", "4x2"}
    /\ called' = Append(called, "_find_document_corners")
    /\ pc' = "detected"
    /\ UNCHANGED <<sideVars, callVars, answer_key, threshold, original, markers,
                   corner_mode, warped, gray, warnings, derived_layout, details, result,
                   response>>

\* variant: when nothing was found the cascade is entered a second time
NotFoundRetry ==
    /\ pc = "detected"
    /\ corners = "None"
    /\ IF Len(called) < 4
       THEN /\ pc' = "cascade"
            /\ UNCHANGED <<warnings, warped, corner_mode>>
       ELSE /\ warnings' = Append(warnings, "markers_not_found")
            /\ warped' = [from |-> "image", size |-> original]
            /\ corner_mode' = "not_found"
            /\ pc' = "warped"
    /\ UNCHANGED <<sideVars, callVars, answer_key, threshold, original, called, markers,
                   corners, gray, derived_layout, details, result, response>>

\* lines 983-987
NotFound ==
    /\ pc = "detected"
    /\ corners = "None"
    /\ warnings' = Append(warnings, "markers_not_found")
    /\ warped' = [from |-> "image", size |-> original]
    /\ corner_mode' = "not_found"
    /\ pc' = "warped"
    /\ UNCHANGED <<sideVars, callVars, answer_key, threshold, original, called, markers,
                   corners, gray, derived_layout, details, result, response>>

\* lines 988-994
AutoWarp ==
    /\ pc = "detected"
    /\ corners # "None"
    /\ warped' \in WarpResults(original)
    /\ corner_mode' = "auto"
    /\ pc' = "warped"
    /\ UNCHANGED <<sideVars, callVars, answer_key, threshold, original, called, markers,
                   corners, gray, warnings, derived_layout, details, result, response>>

\* lines 996-999
Resize ==
    /\ pc = "warped"
    /\ gray' = ResizeToWidth(warped.size, CanonicalWidth)
    /\ pc' = "align"
    /\ UNCHANGED <<sideVars, callVars, answer_key, threshold, original, called, markers,
                   corners, corner_mode, warped, warnings, derived_layout, details, result,
                   response>>

\* variant: a failed dynamic alignment aborts the call instead of falling back
SmartAlignFatal ==
    /\ pc = "align"
    /\ options.smart_align
    /\ \E find \in CircleFinds :
          /\ derived_layout' = DeriveLayout(find)
          /\ pc' = IF DeriveLayout(find) = <<>> THEN "raised" ELSE "scan"
    /\ called' = Append(called, "_derive_layout_from_circles")
    /\ UNCHANGED <<sideVars, callVars, answer_key, threshold, original, markers, corners,
                   corner_mode, warped, gray, warnings, details, result, response>>

\* lines 1002-1009 with smart_align
SmartAlign ==
    /\ pc = "align"
    /\ options.smart_align
    /\ \E find \in CircleFinds :
          /\ derived_layout' = DeriveLayout(find)
          /\ warnings' = AppendIf(warnings, DeriveLayout(find) = <<>>, "smart_align_failed")
    /\ called' = Append(called, "_derive_layout_from_circles")
    /\ pc' = "scan"
    /\ UNCHANGED <<sideVars, callVars, answer_key, threshold, original, markers, corners,
                   corner_mode, warped, gray, details, result, response>>

\* lines 1002-1003 without smart_align
StaticLayout ==
    /\ pc = "align"
    /\ ~options.smart_align
    /\ derived_layout' = <<>>
    /\ pc' = "scan"
    /\ UNCHANGED <<sideVars, callVars, answer_key, threshold, original, called, markers,
                   corners, corner_mode, warped, gray, warnings, details, result, response>>

\* lines 1011-1013: _scan_answers scores every row of the sheet
ScanAnswers ==
    /\ pc = "scan"
    /\ \E sheet \in Sheets :
          details' = [i \in 1..NumRows |->
                        RowDecision(QuestionNumber(i), SheetRow(sheet, QuestionNumber(i)),
                                    MinInkThreshold(threshold), answer_key # <<>>,
                                    Expected(answer_key, QuestionId(QuestionNumber(i))))]
    /\ pc' = "aggregate"
    /\ UNCHANGED <<sideVars, callVars, answer_key, threshold, original, called, markers,
                   corners, corner_mode, warped, gray, warnings, derived_layout, result,
                   response>>

\* lines 1015-1066
Aggregate ==
    /\ pc = "aggregate"
    /\ result' = Result(answer_key, details, gray, warnings, original, corners, corner_mode,
                        derived_layout)
    /\ warnings' = result'.warnings
    /\ pc' = "returned"
    /\ UNCHANGED <<sideVars, callVars, answer_key, threshold, original, called, markers,
                   corners, corner_mode, warped, gray, derived_layout, details, response>>

\* main.scan, lines 138-145: the warning is appended to the result's own list
Respond ==
    /\ pc = "returned"
    /\ caller = "scan"
    /\ result' = [result EXCEPT !.warnings =
                     AppendIf(@, manual_corners_invalid, "invalid_manual_corners")]
    /\ warnings' = result'.warnings
    /\ response' = [ok |-> TRUE, status_code |-> 200, detail |-> "result"]
    /\ pc' = "responded"
    /\ UNCHANGED <<sideVars, callVars, answer_key, threshold, original, called, markers,
                   corners, corner_mode, warped, gray, derived_layout, details>>

\* main.scan, lines 135-136: ValueError becomes HTTP 400
RespondInvalid ==
    /\ pc = "raised"
    /\ caller = "scan"
    /\ response' = [ok |-> FALSE, status_code |-> 400, detail |-> "invalid_image_data"]
    /\ pc' = "rejected"
    /\ UNCHANGED <<sideVars, callVars, localVars>>

Next ==
    \/ Scan
    \/ Call
    \/ ReadOptions
    \/ DecodeImage
    \/ DecodeFails
    \/ SkipWarp
    \/ ManualCorners
    \/ FindMarkerCorners
    \/ UseMarkers
    \/ FindDocumentCorners
    \/ NotFound
    \/ AutoWarp
    \/ Resize
    \/ SmartAlign
    \/ StaticLayout
    \/ ScanAnswers
    \/ Aggregate
    \/ Respond
    \/ RespondInvalid

Spec == Init /\ [][Next]_vars

----------------------------------------------------------------------------
(* Specification SpecRow: one question row with every combination of the   *)
(* fills, the requested threshold and the expected answer below.           *)

\* fills a bubble can score
FillLevels == {0, 10000, 22000, 30000, One}

\* thresholds a caller can request
RequestedThresholds ==
    {<<>>} \cup {<<t>> : t \in {0, 5000, 22000, 32500, 35000, 95000}}

RowInit ==
    /\ rowThreshold \in RequestedThresholds
    /\ rowFills \in [OptionSet -> FillLevels]
    /\ rowMinInk = MinInkThreshold(Threshold(rowThreshold))
    /\ rowDetail = RowDecision(1, rowFills, rowMinInk, FALSE, "None")
    /\ rowBefore = "None"
    /\ PipelineIdle
    /\ KeyIdle
    /\ QuadIdle
    /\ RunsIdle
    /\ FillIdle
    /\ WindowIdle

\* the option sorted first: the highest fill, the earliest option among equals
TopOption(fills) == SortDesc(RawDensities(fills))[1].opt

\* the same row scanned again with more ink on its top-scoring bubble
RescanRaised ==
    \E f \in FillLevels :
        /\ f > rowFills[TopOption(rowFills)]
        /\ rowFills' = [rowFills EXCEPT ![TopOption(rowFills)] = f]
        /\ rowMinInk' = MinInkThreshold(Threshold(rowThreshold))
        /\ rowDetail' = RowDecision(1, rowFills', rowMinInk', FALSE, "None")
        /\ rowBefore' = rowDetail.selected
        /\ UNCHANGED <<rowThreshold, keyVars, quadVars, runVars, fillVars, windowVars,
                       pc, callVars, localVars,
                       response>>

RowNext == RescanRaised

SpecRow == RowInit /\ [][RowNext]_vars

----------------------------------------------------------------------------
(* Specification SpecKey: _normalize_answer_key applied to a raw answer key *)
(* and then to its own output.                                              *)

RawKeyStrings ==
    { <<"7">>, <<"Q", "_", "7">>, <<"q", "_", "0", "7">>, <<"1", "2">>,
      <<"q", "_", "q", "_", "0", "5">>, <<"n", "a", "m", "e">> }

RawValueStrings == { <<"b", " ">>, <<" ", "c">>, <<"A">>, <<" ">> }

RawEntries == {<<k, v>> : k \in RawKeyStrings, v \in RawValueStrings}

\* None, the empty dict, and the dicts of one or two entries
RawAnswerKeys ==
    { <<>>, << <<>> >> }
      \cup { << <<e>> >> : e \in RawEntries }
      \cup { << pair >> : pair \in {x \in RawEntries \X RawEntries : x[1][1] # x[2][1]} }

\* dict.items() of a normalized key: Python keeps the order in which the keys
\* were first inserted, so the keys come in the order the raw items gave them
RECURSIVE InsertionOrder(_)
InsertionOrder(items) ==
    IF items = <<>> THEN <<>>
    ELSE LET before == InsertionOrder(SubSeq(items, 1, Len(items) - 1))
             last == items[Len(items)]
             key_str == NormalizeKeyStr(last[1])
         IN  IF NormalizeValueStr(last[2]) = <<>> THEN before
             ELSE IF \E i \in 1..Len(before) : before[i] = key_str THEN before
             ELSE Append(before, key_str)

DictItems(raw, d) ==
    IF raw = <<>> THEN <<>>
    ELSE LET keys == InsertionOrder(raw[1])
         IN  [i \in 1..Len(keys) |-> <<keys[i], <<d[keys[i]]>> >>]

KeyInit ==
    /\ keyRaw \in RawAnswerKeys
    /\ keyOnce = <<>>
    /\ keyTwice = <<>>
    /\ RowIdle
    /\ PipelineIdle
    /\ QuadIdle
    /\ RunsIdle
    /\ FillIdle
    /\ WindowIdle

NormalizeOnce ==
    /\ keyOnce = <<>>
    /\ keyOnce' = <<NormalizeAnswerKey(keyRaw)>>
    /\ UNCHANGED <<keyRaw, keyTwice, rowVars, quadVars, runVars, fillVars, windowVars,
                   pc, callVars, localVars,
                   response>>

NormalizeTwice ==
    /\ keyOnce # <<>>
    /\ keyTwice = <<>>
    /\ keyTwice' = <<NormalizeAnswerKey(<<DictItems(keyRaw, keyOnce[1])>>)>>
    /\ UNCHANGED <<keyRaw, keyOnce, rowVars, quadVars, runVars, fillVars, windowVars,
                   pc, callVars, localVars,
                   response>>

KeyNext == NormalizeOnce \/ NormalizeTwice

SpecKey == KeyInit /\ [][KeyNext]_vars

----------------------------------------------------------------------------
(* Specification SpecQuad: _order_points, lines 282-290, applied to four    *)
(* points, to its own output (as line 991 does to the corners that          *)
(* _find_marker_corners ordered at line 445) and to the same points in      *)
(* another order.  A point is <<x, y>>.                                     *)

\* np.argmin and np.argmax: the first index holding the extreme value
ArgMin(values) ==
    CHOOSE i \in 1..Len(values) :
        /\ \A j \in 1..Len(values) : values[i] <= values[j]
        /\ \A j \in 1..(i - 1) : values[j] > values[i]

ArgMax(values) ==
    CHOOSE i \in 1..Len(values) :
        /\ \A j \in 1..Len(values) : values[i] >= values[j]
        /\ \A j \in 1..(i - 1) : values[j] < values[i]

\* rect = [top-left, top-right, bottom-right, bottom-left]
OrderPoints(points) ==
    LET s == [i \in 1..Len(points) |-> points[i][1] + points[i][2]]
        diff == [i \in 1..Len(points) |-> points[i][2] - points[i][1]]
    IN  << points[ArgMin(s)], points[ArgMin(diff)], points[ArgMax(s)], points[ArgMax(diff)] >>

QuadPointSet == { <<0, 0>>, <<3, 0>>, <<3, 1>>, <<2, 2>>, <<3, 3>>, <<0, 3>> }

QuadInit ==
    /\ quadPoints \in [1..4 -> QuadPointSet]
    /\ quadOrdered = <<>>
    /\ quadAgain = <<>>
    /\ quadPermuted = <<>>
    /\ quadPermutedOrdered = <<>>
    /\ RowIdle
    /\ PipelineIdle
    /\ KeyIdle
    /\ RunsIdle
    /\ FillIdle
    /\ WindowIdle

OrderOnce ==
    /\ quadOrdered = <<>>
    /\ quadOrdered' = OrderPoints(quadPoints)
    /\ UNCHANGED <<quadPoints, quadAgain, quadPermuted, quadPermutedOrdered, rowVars, keyVars,
                   runVars, fillVars, windowVars, pc, callVars, localVars, response>>

OrderAgain ==
    /\ quadOrdered # <<>>
    /\ quadAgain = <<>>
    /\ quadPermuted = <<>>
    /\ quadAgain' = OrderPoints(quadOrdered)
    /\ UNCHANGED <<quadPoints, quadOrdered, quadPermuted, quadPermutedOrdered, rowVars,
                   keyVars, runVars, fillVars, windowVars, pc, callVars, localVars, response>>

OrderPermuted ==
    /\ quadOrdered # <<>>
    /\ quadAgain = <<>>
    /\ quadPermuted = <<>>
    /\ \E perm \in Permutations(1..4) :
          /\ quadPermuted' = [i \in 1..4 |-> quadPoints[perm[i]]]
          /\ quadPermutedOrdered' = OrderPoints(quadPermuted')
    /\ UNCHANGED <<quadPoints, quadOrdered, quadAgain, rowVars, keyVars, runVars, fillVars,
                   windowVars, pc, callVars, localVars, response>>

QuadNext == OrderOnce \/ OrderAgain \/ OrderPermuted

SpecQuad == QuadInit /\ [][QuadNext]_vars

----------------------------------------------------------------------------
(* Specification SpecCalls: invocations of run_pipeline running in one      *)
(* process, possibly at the same time, followed through the bubble reads of *)
(* _scan_answers.  _bubble_fill_ratio, lines 661-707, returns the fill of a *)
(* bubble and, on the way, adds one to the module-level list                *)
(* _fill_debug_counter (line 659) and prints a line while it is at most 20. *)
(* The addition is a load and a store that another thread can come between. *)

\* line 702
DebugLogLimit == 20

\* bubbles read by one invocation (780 on the full form): one row here
BubblesPerCall == 5

\* invocations that ran to their end before the ones followed here
MaxPriorCalls == 4

\* the images the invocations are given, named by the sheet they show
CallBytes == {"all", "mixed"}

CallThresholds == {<<>>}

\* bubbles are read row by row, option by option
BubbleRow(n) == ((n - 1) \div Len(Options)) + 1

BubbleOption(n) == Options[((n - 1) % Len(Options)) + 1]

\* fill, line 698: what the pixels around the bubble give
BubbleFill(bytes, n) == SheetRow(bytes, BubbleRow(n))[BubbleOption(n)]

\* the rows all of whose bubbles have been read, scored as _scan_answers does
CallDetails(fills, requested) ==
    [q \in 1..(Len(fills) \div Len(Options)) |->
        RowDecision(q, [o \in OptionSet |->
                           fills[CHOOSE n \in 1..Len(fills) :
                                    BubbleRow(n) = q /\ BubbleOption(n) = o]],
                    MinInkThreshold(Threshold(requested)), FALSE, "None")]

CallsInit ==
    /\ \E n \in 0..MaxPriorCalls : fill_debug_counter = n * BubblesPerCall
    /\ calls = [i \in CallIds |-> IdleCall]
    /\ RowIdle
    /\ PipelineIdle
    /\ KeyIdle
    /\ QuadIdle
    /\ FillIdle
    /\ WindowIdle

\* run_pipeline is entered with image bytes and options
StartCall(i) ==
    /\ calls[i].pc = "idle"
    /\ \E bytes \in CallBytes, requested \in CallThresholds :
          calls' = [calls EXCEPT ![i].pc = "load", ![i].bytes = bytes,
                                 ![i].threshold = requested]
    /\ UNCHANGED <<fill_debug_counter, rowVars, keyVars, quadVars, fillVars, windowVars,
                   pc, callVars, localVars,
                   response>>

\* line 701, first half: _fill_debug_counter[0] is read
LoadCounter(i) ==
    /\ calls[i].pc = "load"
    /\ calls' = [calls EXCEPT ![i].pc = "store", ![i].loaded = fill_debug_counter]
    /\ UNCHANGED <<fill_debug_counter, rowVars, keyVars, quadVars, fillVars, windowVars,
                   pc, callVars, localVars,
                   response>>

\* line 701, second half: the value read, plus one, is written back
StoreCounter(i) ==
    /\ calls[i].pc = "store"
    /\ fill_debug_counter' = calls[i].loaded + 1
    /\ calls' = [calls EXCEPT ![i].pc = "test"]
    /\ UNCHANGED <<rowVars, keyVars, quadVars, fillVars, windowVars,
                   pc, callVars, localVars, response>>

\* variant: the fill is returned from inside the logging branch only
TestCounterLeaky(i) ==
    /\ calls[i].pc = "test"
    /\ calls' = [calls EXCEPT
          ![i].printed = @ + (IF fill_debug_counter <= DebugLogLimit THEN 1 ELSE 0),
          ![i].fills = Append(@, IF fill_debug_counter <= DebugLogLimit
                                 THEN BubbleFill(calls[i].bytes, calls[i].k + 1) ELSE 0),
          ![i].k = @ + 1,
          ![i].pc = IF calls[i].k + 1 = BubblesPerCall THEN "score" ELSE "load"]
    /\ UNCHANGED <<fill_debug_counter, rowVars, keyVars, quadVars, fillVars, windowVars,
                   pc, callVars, localVars,
                   response>>

\* lines 702-707: the counter is read again for the log line, then fill is returned
TestCounter(i) ==
    /\ calls[i].pc = "test"
    /\ calls' = [calls EXCEPT
          ![i].printed = @ + (IF fill_debug_counter <= DebugLogLimit THEN 1 ELSE 0),
          ![i].fills = Append(@, BubbleFill(calls[i].bytes, calls[i].k + 1)),
          ![i].k = @ + 1,
          ![i].pc = IF calls[i].k + 1 = BubblesPerCall THEN "score" ELSE "load"]
    /\ UNCHANGED <<fill_debug_counter, rowVars, keyVars, quadVars, fillVars, windowVars,
                   pc, callVars, localVars,
                   response>>

\* the rows are scored and run_pipeline returns
ReturnCall(i) ==
    /\ calls[i].pc = "score"
    /\ calls' = [calls EXCEPT ![i].pc = "returned",
                              ![i].details = CallDetails(calls[i].fills, calls[i].threshold)]
    /\ UNCHANGED <<fill_debug_counter, rowVars, keyVars, quadVars, fillVars, windowVars,
                   pc, callVars, localVars,
                   response>>

CallsNext ==
    \E i \in CallIds :
        \/ StartCall(i)
        \/ LoadCounter(i)
        \/ StoreCounter(i)
        \/ TestCounter(i)
        \/ ReturnCall(i)

SpecCalls == CallsInit /\ [][CallsNext]_vars

----------------------------------------------------------------------------
(* Specification SpecFill: what _bubble_fill_ratio, lines 661-707, returns  *)
(* for one bubble, and again after the signal of the same bubble has risen. *)
(* cv2.mean gives a mean grey level between 0 and 255; it is held as an     *)
(* integer counting 255/100000 grey levels, so that the quotient by 255 at  *)
(* line 693 is the same integer in hundred-thousandths.                     *)

\* line 693: ink = (mean_ring - mean_inner) / 255.0
InkSignal(mean_ring, mean_inner) == mean_ring - mean_inner

NoiseFloor == 10000

Stretch == 6

\* variant: the stretched signal is not clamped from above
FillOfInkUnclamped(ink) == Max(0, (ink - NoiseFloor) * Stretch)

\* line 698: fill = np.clip((ink - 0.10) * 6.0, 0.0, 1.0)
FillOfInk(ink) == Min(One, Max(0, (ink - NoiseFloor) * Stretch))

\* lines 667-669 and 693-707
BubbleFillRatio(b) ==
    IF b.x < 0 \/ b.y < 0 \/ b.x >= b.width \/ b.y >= b.height THEN 0
    ELSE FillOfInk(InkSignal(b.mean_ring, b.mean_inner))

\* mean grey levels: black, 0.05, 0.10, just under and over 0.10 + 1/6, 0.20, white
MeanLevels == {0, 5000, 10000, 20000, 26666, 26667, One}

BubbleCentres == { <<-1, 5>>, <<5, -1>>, <<5, 5>>, <<0, 0>>, <<10, 5>>, <<5, 10>> }

Bubbles ==
    { [x |-> c[1], y |-> c[2], width |-> 10, height |-> 10, mean_ring |-> r, mean_inner |-> m] :
        c \in BubbleCentres, r \in MeanLevels, m \in MeanLevels }

FillInit ==
    /\ bubble \in Bubbles
    /\ bubbleFill = <<>>
    /\ bubbleBefore = <<>>
    /\ RowIdle
    /\ PipelineIdle
    /\ KeyIdle
    /\ QuadIdle
    /\ RunsIdle
    /\ WindowIdle

ScoreBubble ==
    /\ bubbleFill = <<>>
    /\ bubbleFill' = <<BubbleFillRatio(bubble)>>
    /\ UNCHANGED <<bubble, bubbleBefore, rowVars, keyVars, quadVars, runVars, windowVars,
                   pc, callVars, localVars, response>>

\* the same bubble with a darker core, scored again
ScoreDarker ==
    /\ bubbleFill # <<>>
    /\ bubbleBefore = <<>>
    /\ \E m \in MeanLevels :
          /\ m < bubble.mean_inner
          /\ bubble' = [bubble EXCEPT !.mean_inner = m]
    /\ bubbleBefore' = << [ ink |-> InkSignal(bubble.mean_ring, bubble.mean_inner),
                            fill |-> bubbleFill[1] ] >>
    /\ bubbleFill' = <<BubbleFillRatio(bubble')>>
    /\ UNCHANGED <<rowVars, keyVars, quadVars, runVars, windowVars, pc, callVars, localVars,
                   response>>

FillNext == ScoreBubble \/ ScoreDarker

SpecFill == FillInit /\ [][FillNext]_vars

----------------------------------------------------------------------------
(* Specification SpecWindow: the rows _derive_layout_from_circles keeps,    *)
(* lines 589-603, out of the row clusters _cluster_1d returned (lines       *)
(* 551-561: one centre per cluster, in ascending order).                    *)

\* sorted(y_centers), line 589: the i-th entry is the value with fewer than i
\* entries below it and at least i entries not above it
SortAsc(seq) ==
    [i \in 1..Len(seq) |->
        CHOOSE v \in {seq[j] : j \in 1..Len(seq)} :
            /\ Cardinality({j \in 1..Len(seq) : seq[j] < v}) < i
            /\ Cardinality({j \in 1..Len(seq) : seq[j] <= v}) >= i]

\* np.diff(subset), line 595
Diffs(subset) == [i \in 1..(Len(subset) - 1) |-> subset[i + 1] - subset[i]]

RECURSIVE SumSeq(_)
SumSeq(seq) ==
    IF Len(seq) = 0 THEN 0
    ELSE IF Len(seq) = 1 THEN seq[1]
    ELSE SumSeq(SubSeq(seq, 1, Len(seq) \div 2))
           + SumSeq(SubSeq(seq, Len(seq) \div 2 + 1, Len(seq)))

\* np.var(diffs), line 596, times the square of the number of diffs: the
\* windows compared all have the same number of diffs
VarianceScaled(diffs) ==
    Len(diffs) * SumSeq([i \in 1..Len(diffs) |-> diffs[i] * diffs[i]])
      - SumSeq(diffs) * SumSeq(diffs)

\* variant: a later window of equal variance replaces the best one
RECURSIVE BestWindowLatest(_, _, _)
BestWindowLatest(y_centers, start, best_subset) ==
    IF start > Len(y_centers) - ExpectedRows + 1 THEN best_subset
    ELSE LET subset == SubSeq(y_centers, start, start + ExpectedRows - 1)
             variance == VarianceScaled(Diffs(subset))
         IN  IF best_subset = <<>> \/ variance <= best_subset[1].variance
             THEN BestWindowLatest(y_centers, start + 1,
                                   <<[variance |-> variance, subset |-> subset]>>)
             ELSE BestWindowLatest(y_centers, start + 1, best_subset)

\* lines 592-599: the loop over start, best_subset being <<>> for None
RECURSIVE BestWindow(_, _, _)
BestWindow(y_centers, start, best_subset) ==
    IF start > Len(y_centers) - ExpectedRows + 1 THEN best_subset
    ELSE LET subset == SubSeq(y_centers, start, start + ExpectedRows - 1)
             variance == VarianceScaled(Diffs(subset))
         IN  IF best_subset = <<>> \/ variance < best_subset[1].variance
             THEN BestWindow(y_centers, start + 1,
                             <<[variance |-> variance, subset |-> subset]>>)
             ELSE BestWindow(y_centers, start + 1, best_subset)

\* lines 589-603: the rows of the layout, or None
KeepRows(clusters) ==
    LET y_centers == SortAsc(clusters)
        best_subset == BestWindow(y_centers, 1, <<>>)
        kept == IF Len(y_centers) > ExpectedRows /\ best_subset # <<>>
                THEN best_subset[1].subset ELSE y_centers
    IN  IF Len(kept) # ExpectedRows THEN [found |-> FALSE, rows |-> <<>>]
        ELSE [found |-> TRUE, rows |-> kept]

\* the printed grid: 52 rows, 40 pixels apart, one of them possibly off by 4
GridRows(jitter) == [i \in 1..ExpectedRows |-> 260 + 40 * i + (IF i = 26 THEN jitter ELSE 0)]

\* spurious clusters above and below the grid, given by their gaps
RECURSIVE Above(_, _)
Above(first, gaps) ==
    IF gaps = <<>> THEN <<>> ELSE Above(first - gaps[1], Tail(gaps)) \o <<first - gaps[1]>>

RECURSIVE Below(_, _)
Below(last, gaps) ==
    IF gaps = <<>> THEN <<>> ELSE <<last + gaps[1]>> \o Below(last + gaps[1], Tail(gaps))

RowClusters ==
    LET gaps == {<<>>} \cup {<<g>> : g \in {10, 40, 70}} \cup ({10, 40, 70} \X {10, 40, 70})
    IN  { Above(GridRows(j)[1], a) \o GridRows(j) \o Below(GridRows(j)[ExpectedRows], b) :
            j \in {0, 4}, a \in gaps, b \in gaps }

WindowInit ==
    /\ yClusters \in RowClusters
    /\ yKept = <<>>
    /\ RowIdle
    /\ PipelineIdle
    /\ KeyIdle
    /\ QuadIdle
    /\ RunsIdle
    /\ FillIdle

SelectRows ==
    /\ yKept = <<>>
    /\ yKept' = <<KeepRows(yClusters)>>
    /\ UNCHANGED <<yClusters, rowVars, keyVars, quadVars, runVars, fillVars, pc, callVars,
                   localVars, response>>

WindowNext == SelectRows

SpecWindow == WindowInit /\ [][WindowNext]_vars

----------------------------------------------------------------------------
(* The row's figures as the specification words them, from the fills alone. *)

OptionIndex(o) == CHOOSE i \in 1..Len(Options) : Options[i] = o

RowTopFill == CHOOSE f \in {rowFills[o] : o \in OptionSet} : \A o \in OptionSet : rowFills[o] <= f

\* the top-scoring option (the earliest in option order if several tie)
RowTopOption ==
    CHOOSE o \in OptionSet :
        /\ rowFills[o] = RowTopFill
        /\ \A p \in OptionSet : rowFills[p] = RowTopFill => OptionIndex(o) <= OptionIndex(p)

RowSecondFill ==
    CHOOSE f \in {rowFills[o] : o \in OptionSet \ {RowTopOption}} :
        \A o \in OptionSet \ {RowTopOption} : rowFills[o] <= f

RECURSIVE SumOver(_, _)
SumOver(f, S) == IF S = {} THEN 0 ELSE LET x == CHOOSE y \in S : TRUE IN f[x] + SumOver(f, S \ {x})

\* four times (top - mean of all but top), so that no division is needed
RowContrastTimes4 == 4 * RowTopFill - SumOver(rowFills, OptionSet \ {RowTopOption})

RowConfidence == RowTopFill - RowSecondFill

RowStrict ==
    /\ RowTopFill >= rowMinInk
    /\ RowContrastTimes4 >= 4 * 22000
    /\ RowConfidence >= 8000

\* within 0.05 below the floor, contrast and confidence at least 1.25 times the minimums
RowTolerantAtLeast ==
    /\ RowTopFill >= rowMinInk - 5000
    /\ RowContrastTimes4 >= 5 * 22000
    /\ 4 * RowConfidence >= 5 * 8000

\* the same with contrast and confidence strictly above 1.25 times the minimums
RowTolerantExceeds ==
    /\ RowTopFill >= rowMinInk - 5000
    /\ RowContrastTimes4 > 5 * 22000
    /\ 4 * RowConfidence > 5 * 8000

C7_Monotone ==
    rowBefore \in OptionSet => rowDetail.selected = rowBefore /\ rowBefore = RowTopOption

\* C7 witness: a selected top option whose fill has been raised
C7_Witness == rowBefore \in OptionSet /\ rowDetail.selected = rowBefore

C8InWindow(o) == rowFills[o] >= rowMinInk /\ RowTopFill - rowFills[o] <= 8000

\* C8: markedOptions lists, in option order A..E, exactly the options whose fill is
\* at least the ink floor and within 0.08 of the row's top fill; multipleMarks is
\* true exactly when that list has more than one element.
C8_MarkedOptions ==
    /\ rowDetail.markedOptions = SelectSeq(Options, C8InWindow)
    /\ rowDetail.multipleMarks = (Len(rowDetail.markedOptions) > 1)

\* C8 witness: two marked options with different fills, and an unmarked one between
C8_Witness ==
    /\ rowDetail.multipleMarks
    /\ Len(rowDetail.markedOptions) = 2
    /\ rowFills[rowDetail.markedOptions[1]] # rowFills[rowDetail.markedOptions[2]]
    /\ OptionIndex(rowDetail.markedOptions[2]) > OptionIndex(rowDetail.markedOptions[1]) + 1

\* C9: the ink floor is the requested threshold clamped to [0.08, 0.9] for every
\* requested value (0 included), 0.22 when none is requested, and always lies
\* within [0.08, 0.9].
C9_FloorIsClampedRequest ==
    /\ rowMinInk >= 8000 /\ rowMinInk <= 90000
    /\ rowThreshold = <<>> => rowMinInk = 22000
    /\ rowThreshold # <<>> =>
          rowMinInk = (IF rowThreshold[1] < 8000 THEN 8000
                       ELSE IF rowThreshold[1] > 90000 THEN 90000
                       ELSE rowThreshold[1])

----------------------------------------------------------------------------
(* Claims about one request (specification Spec). *)

Range(seq) == {seq[i] : i \in 1..Len(seq)}

\* run_pipeline has returned its result
Returned == pc \in {"returned", "responded"}

\* the request is over: run_pipeline returned to its caller, /scan answered
Done == (caller = "direct" /\ pc = "returned") \/ pc = "responded"

\* the corner cascade is over
PastCascade == pc \in {"warped", "align", "scan", "aggregate", "returned", "responded"}

IsCornerDetection(name) == name \in {"_find_marker_corners", "_find_document_corners"}

CornerDetections == SelectSeq(called, IsCornerDetection)

MalformedManual ==
    \/ caller = "scan" /\ form \in {"three_json", "non_numeric_json"}
    \/ caller = "direct" /\ options.manual_corners \in {"three", "non_numeric"}

\* C3: a malformed manual-corner list never fails the request; the result is
\* returned as ok, carries invalid_manual_corners, has cornerMode
\* "manual_invalid", and the unrectified image is scored.
C3_MalformedManual ==
    /\ image.decodable /\ MalformedManual => pc \notin {"raised", "rejected"}
    /\ Done /\ MalformedManual =>
         /\ caller = "scan" => response.ok
         /\ "invalid_manual_corners" \in Range(result.warnings)
         /\ result.meta.cornerMode = "manual_invalid"
         /\ warped.from = "image"

\* C4: alignment_unreliable is in the result exactly when cornerMode is neither
\* "manual" nor "auto" and smartAlignUsed is false.
C4_AlignmentUnreliable ==
    Returned =>
      ( "alignment_unreliable" \in Range(result.warnings)
          <=> ( result.meta.cornerMode \notin {"manual", "auto"}
                /\ ~result.meta.smartAlignUsed ) )

\* the failures of detection sub-strategies in this request
ExifFailed == image.exif = "corrupt"

MarkersFailed == "_find_marker_corners" \in Range(called) /\ markers = "None"

DocumentFailed == "_find_document_corners" \in Range(called) /\ corners = "None"

ManualShapeFailed ==
    /\ CornerBranch(options.skip_warp, options.manual_corners) = "manual"
    /\ options.manual_corners = "three"

ManualValueFailed ==
    /\ CornerBranch(options.skip_warp, options.manual_corners) = "manual"
    /\ options.manual_corners = "non_numeric"

ManualRejected == caller = "scan" /\ manual_corners_invalid

SmartAlignFailed == "_derive_layout_from_circles" \in Range(called) /\ derived_layout = <<>>

\* the tags appended where a sub-strategy fails
FailureTags ==
    {"invalid_manual_corners", "manual_corners_error", "markers_not_found", "smart_align_failed"}

\* C5 (as amended): once the image has decoded, no failure of a detection
\* sub-strategy makes the call raise.  In the returned result a warning
\* tag is present exactly when marker and document-edge detection both fail
\* (markers_not_found), when manual corners are malformed
\* (invalid_manual_corners, or manual_corners_error when an entry is not a
\* number) and when dynamic alignment fails (smart_align_failed).  A failed
\* orientation-metadata parse, and a marker detection that the document-edge
\* fallback makes up for, append no tag.
C5_DegradedNotFatal ==
    /\ pc \in {"raised", "rejected"} => ~image.decodable
    /\ Done =>
         /\ MarkersFailed /\ DocumentFailed <=> "markers_not_found" \in Range(result.warnings)
         /\ ManualShapeFailed \/ ManualRejected
              <=> "invalid_manual_corners" \in Range(result.warnings)
         /\ ManualValueFailed <=> "manual_corners_error" \in Range(result.warnings)
         /\ SmartAlignFailed <=> "smart_align_failed" \in Range(result.warnings)

\* C5 witness: the metadata does not parse, marker detection is incomplete, the
\* document-edge fallback succeeds, and the result carries no failure tag
C5_Witness ==
    /\ Done
    /\ ExifFailed
    /\ MarkersFailed
    /\ ~DocumentFailed
    /\ result.meta.cornerMode = "auto"
    /\ Range(result.warnings) \cap FailureTags = {}

\* C5 as originally worded: every failure of a sub-strategy appends a warning
\* tag, so a result reached through any failure carries a failure tag
C5_EveryFailureWarns ==
    Done /\ ( ExifFailed \/ MarkersFailed \/ DocumentFailed \/ ManualShapeFailed
              \/ ManualValueFailed \/ ManualRejected \/ SmartAlignFailed )
      => Range(result.warnings) \cap FailureTags # {}

\* the rows with a given correctness flag
RowsFlagged(flag) == {i \in 1..Len(details) : details[i].correct = flag}

\* C10: the correctness flag of a question is absent when the normalized answer
\* key has no entry for it, true exactly when a non-empty selected option equals
\* the expected one, false otherwise; score counts the true flags and is 0
\* without an answer key, so it exceeds neither the answered questions nor the
\* key entries.
C10_CorrectnessAndScore ==
    Returned =>
      /\ \A i \in 1..Len(details) :
           LET d == details[i]
               id == QuestionId(d.question)
           IN  d.correct = ( IF id \notin DOMAIN answer_key THEN "None"
                             ELSE IF d.selected # "" /\ d.selected = answer_key[id] THEN "True"
                             ELSE "False" )
      /\ result.score = Cardinality(RowsFlagged("True"))
      /\ options.answer_key = <<>> => result.score = 0
      /\ result.score <= result.meta.markedCount
      /\ result.score <= Cardinality(DOMAIN answer_key)

\* C10 witness: a key with entries, and a sheet with a right answer, a wrong
\* answer, an unanswered keyed question and questions the key does not name
C10_Witness ==
    /\ Returned
    /\ result.score > 0
    /\ \E i \in RowsFlagged("False") : details[i].selected # ""
    /\ \E i \in RowsFlagged("False") : details[i].selected = ""
    /\ RowsFlagged("None") # {}

\* the questions with a non-empty selected option
Answered == {i \in 1..Len(details) : details[i].selected # ""}

\* C11 (as amended): low_marks_detected is in the result exactly when at least
\* one and fewer than 15 questions are answered; with none answered the result
\* carries no_marks_detected instead.
C11_LowMarks ==
    Returned =>
      /\ "low_marks_detected" \in Range(result.warnings)
           <=> (Cardinality(Answered) >= 1 /\ Cardinality(Answered) < 15)
      /\ Cardinality(Answered) = 0 =>
           /\ "no_marks_detected" \in Range(result.warnings)
           /\ "low_marks_detected" \notin Range(result.warnings)

\* C11 witness: fourteen questions answered and the warning present
C11_Witness ==
    /\ Returned
    /\ Cardinality(Answered) = 14
    /\ "low_marks_detected" \in Range(result.warnings)

\* C11 as originally worded: the warning is present whenever fewer than 15
\* questions are answered and absent otherwise
C11_LowMarksBelowFifteen ==
    Returned =>
      ( "low_marks_detected" \in Range(result.warnings) <=> Cardinality(Answered) < 15 )

\* all the question numbers of the form
AllQuestions == {QuestionNumber(i) : i \in 1..NumRows}

\* C12 (as amended): a row whose fills are all 0 selects nothing, and when no
\* row yields a selected option the answers map holds every question with the
\* empty string, markedCount is 0 and no_marks_detected is in warnings.
C12_NoMarks ==
    Returned =>
      /\ \A i \in 1..Len(details) : details[i].ink = 0 => details[i].selected = ""
      /\ Answered = {} =>
           LET answers == Answers(details)
           IN  /\ DOMAIN answers = AllQuestions
               /\ \A n \in AllQuestions : answers[n] = ""
      /\ Answered = {} =>
           /\ result.meta.markedCount = 0
           /\ "no_marks_detected" \in Range(result.warnings)

\* C12 witness: the blank sheet, scored after rectification
C12_Witness ==
    /\ Returned
    /\ \A i \in 1..Len(details) : details[i].ink = 0
    /\ Len(details) = NumRows
    /\ warped.from = "rectified"
    /\ "no_marks_detected" \in Range(result.warnings)

\* C12 as originally worded: with nothing selected the answers map is empty
C12_EmptyAnswersMap ==
    Returned /\ Answered = {} =>
      /\ DOMAIN Answers(details) = {}
      /\ result.meta.markedCount = 0
      /\ "no_marks_detected" \in Range(result.warnings)

\* the rows the code counts as ambiguous, and the rows with nothing selected,
\* high ink and any positive contrast
AmbiguousRows ==
    {i \in 1..Len(details) :
        details[i].selected = "" /\ details[i].ink >= 22000 /\ details[i].contrast >= 12000}

UnselectedInkedRows ==
    {i \in 1..Len(details) :
        details[i].selected = "" /\ details[i].ink >= 22000 /\ details[i].contrast > 0}

\* C13 (as amended): needs_review is in the result exactly when some question
\* has no selected option, ink of at least 0.22 and contrast of at least 0.12;
\* ambiguousCount is the number of such questions.
C13_NeedsReview ==
    Returned =>
      /\ "needs_review" \in Range(result.warnings) <=> AmbiguousRows # {}
      /\ result.meta.ambiguousCount = Cardinality(AmbiguousRows)

\* C13 witness: rows with high ink and a small positive contrast, none of them
\* ambiguous, and no needs_review
C13_Witness ==
    /\ Returned
    /\ UnselectedInkedRows # {}
    /\ AmbiguousRows = {}
    /\ "needs_review" \notin Range(result.warnings)

\* C13 as originally worded: any positive contrast makes the row ambiguous
C13_NeedsReviewPositiveContrast ==
    Returned =>
      ( "needs_review" \in Range(result.warnings) <=> UnselectedInkedRows # {} )

\* dynamic alignment is over
PastAlign == pc \in {"scan", "aggregate", "returned", "responded"}

\* C15: with smart_align a derived layout is in use only if it has exactly 52
\* rows and three column groups of five; otherwise it is discarded,
\* smart_align_failed is appended, smartAlignUsed is false and the static
\* table is used.  Without smart_align the static layout is always used and
\* no smart-align warning appears.
C15_SmartAlign ==
    /\ PastAlign /\ derived_layout # <<>> =>
         /\ options.smart_align
         /\ derived_layout[1].rows = 52
         /\ derived_layout[1].columns * Len(Options) >= 15
         /\ "smart_align_failed" \notin Range(warnings)
    /\ PastAlign /\ options.smart_align /\ derived_layout = <<>> =>
         "smart_align_failed" \in Range(warnings)
    /\ PastAlign /\ ~options.smart_align =>
         derived_layout = <<>> /\ "smart_align_failed" \notin Range(warnings)
    /\ Returned =>
         /\ result.meta.smartAlignUsed <=> derived_layout # <<>>
         /\ "smart_align_failed" \in Range(result.warnings)
              <=> (options.smart_align /\ ~result.meta.smartAlignUsed)

\* C15 witness: smart_align asked for, the layout discarded, the result scored
\* on the static table
C15_Witness ==
    /\ Returned
    /\ options.smart_align
    /\ ~result.meta.smartAlignUsed
    /\ "smart_align_failed" \in Range(result.warnings)
    /\ Len(details) = NumRows

\* how often a strategy has been called
TimesCalled(name) == Cardinality({i \in 1..Len(called) : called[i] = name})

Strategies == {"_find_marker_corners", "_find_document_corners", "_derive_layout_from_circles"}

\* the order of the stages of a call
StageOrder ==
    <<"idle", "called", "decode", "cascade", "markers", "detected", "warped", "align", "scan",
      "aggregate", "returned", "responded", "raised", "rejected">>

Stage(p) == CHOOSE i \in 1..Len(StageOrder) : StageOrder[i] = p

\* each strategy is called at most once, and exactly once when the cascade
\* reaches it
AttemptedAtMostOnce ==
    /\ \A name \in Strategies : TimesCalled(name) <= 1
    /\ \A i \in 1..Len(called) : called[i] \in Strategies
    /\ Returned =>
         /\ TimesCalled("_find_marker_corners") = 1
              <=> (~options.skip_warp /\ options.manual_corners = "None")
         /\ TimesCalled("_find_document_corners") = 1
              <=> (TimesCalled("_find_marker_corners") = 1 /\ markers = "None")
         /\ TimesCalled("_derive_layout_from_circles") = 1 <=> options.smart_align

\* C20 (as amended): within one invocation each detection strategy is attempted
\* at most once: marker detection once when neither skip_warp nor manual
\* corners are given, document-edge detection once when marker detection
\* returned nothing, dynamic alignment once when smart_align is set, and not at
\* all otherwise.  No stage is entered again once it has been left.
C20_NoRetries == []AttemptedAtMostOnce /\ [][Stage(pc') > Stage(pc)]_pc

\* C20 witness: all three strategies have run, each once, two of them failing
C20_Witness ==
    /\ Returned
    /\ called = <<"_find_marker_corners", "_find_document_corners", "_derive_layout_from_circles">>
    /\ corner_mode = "not_found"
    /\ derived_layout = <<>>

\* C20 as originally worded: every strategy is attempted exactly once
C20_ExactlyOnce ==
    Returned => \A name \in Strategies : TimesCalled(name) = 1

----------------------------------------------------------------------------
(* Claims about the answer key (specification SpecKey). *)

\* a key of the form: an optional q_ prefix in either case, then decimal digits
KeyDigits(key) == IF StartsWithQ(key) THEN SubSeq(key, 3, Len(key)) ELSE key

WellFormedKey(key) ==
    /\ KeyDigits(key) # <<>>
    /\ \A i \in 1..Len(KeyDigits(key)) : KeyDigits(key)[i] \in Range(Digits)

\* the integer a digit string writes, read from the left
RECURSIVE DecimalValue(_, _)
DecimalValue(str, acc) ==
    IF str = <<>> THEN acc
    ELSE DecimalValue(Tail(str), 10 * acc + ((CHOOSE i \in 1..10 : Digits[i] = Head(str)) - 1))

\* the first character of the trimmed, upper-cased value, <<>> if it is blank
FirstLetter(value) ==
    LET inked == SelectSeq(value, LAMBDA c : c # " ")
    IN  IF inked = <<>> THEN <<>> ELSE <<ToUpper(inked[1])>>

RawItems == IF keyRaw = <<>> THEN <<>> ELSE keyRaw[1]

\* the raw entry i is the last one to write its identifier
LastForItsId(i) ==
    \A j \in (i + 1)..Len(RawItems) :
        FirstLetter(RawItems[j][2]) = <<>>
          \/ NormalizeKeyStr(RawItems[j][1]) # NormalizeKeyStr(RawItems[i][1])

\* no raw key carries the q_ prefix twice
SinglePrefixKeys == \A i \in 1..Len(RawItems) : ~StartsWithQ(KeyDigits(RawItems[i][1]))

\* C14 (as amended): a key made of an optional case-insensitive q_ prefix and
\* decimal digits is normalized to q_<n>, n the integer the digits write, and
\* its expected value is the first character of the trimmed, upper-cased
\* value (a blank value gives no entry); normalizing an already normalized
\* key map returns the same map provided no raw key carried the prefix twice.
C14_Normalization ==
    /\ keyOnce # <<>> =>
         \A i \in 1..Len(RawItems) :
            LET key == RawItems[i][1]
                id == <<"q", "_">> \o StrOfInt(DecimalValue(KeyDigits(key), 0))
                letter == FirstLetter(RawItems[i][2])
            IN  WellFormedKey(key) /\ LastForItsId(i) =>
                  IF letter = <<>> THEN TRUE
                  ELSE id \in DOMAIN keyOnce[1] /\ keyOnce[1][id] = letter[1]
    /\ keyOnce # <<>> =>
         \A id \in DOMAIN keyOnce[1] :
            \E i \in 1..Len(RawItems) :
               NormalizeKeyStr(RawItems[i][1]) = id /\ FirstLetter(RawItems[i][2]) # <<>>
    /\ keyTwice # <<>> /\ SinglePrefixKeys => keyTwice = keyOnce

\* C14 witness: {"Q_7": "b ", "12": " c"} gives {q_7: "B", q_12: "C"}, and the
\* same again when normalized twice
C14_Witness ==
    /\ keyRaw = << << << <<"Q", "_", "7">>, <<"b", " ">> >>, << <<"1", "2">>, <<" ", "c">> >> >> >>
    /\ keyTwice # <<>>
    /\ DOMAIN keyOnce[1] = { <<"q", "_", "7">>, <<"q", "_", "1", "2">> }
    /\ keyOnce[1][<<"q", "_", "7">>] = "B"
    /\ keyOnce[1][<<"q", "_", "1", "2">>] = "C"
    /\ keyTwice = keyOnce

\* C14 as originally worded: normalizing a normalized key map always returns
\* the same map
C14_Idempotent == keyTwice # <<>> => keyTwice = keyOnce

----------------------------------------------------------------------------
(* Claims about the ordering of four points (specification SpecQuad). *)

\* C18: ordering is a fixed point: for every input of four points, ordering
\* the ordered points again gives the same four points in the same order.
C18_FixedPoint == quadAgain # <<>> => quadAgain = quadOrdered

\* twice the signed area of the triangle o, a, b
Cross(o, a, b) == (a[1] - o[1]) * (b[2] - o[2]) - (a[2] - o[2]) * (b[1] - o[1])

\* the four points are the corners of a convex quadrilateral: taken in some
\* order they turn the same way at every corner
ConvexQuad(points) ==
    \E perm \in Permutations(1..4) :
        \A i \in 1..4 :
            Cross(points[perm[i]], points[perm[(i % 4) + 1]], points[perm[((i + 1) % 4) + 1]]) > 0

\* C19: for four points forming a convex quadrilateral the ordered quad is the
\* same for every order of the input; in particular the points chosen as
\* top-left and as bottom-right do not depend on the input order.
C19_OrderIndependent ==
    quadPermutedOrdered # <<>> /\ ConvexQuad(quadPoints) =>
      /\ quadPermutedOrdered[1] = quadOrdered[1]
      /\ quadPermutedOrdered[3] = quadOrdered[3]
      /\ quadPermutedOrdered = quadOrdered

----------------------------------------------------------------------------
(* Claims about several invocations (specification SpecCalls). *)

HasRead(i) == calls[i].k > 0 \/ calls[i].pc \in {"store", "test"}

HasWritten(i) == calls[i].k > 0 \/ calls[i].pc = "test"

\* C17: no variable written during one invocation is read or written by
\* another.
C17_NoSharedState ==
    \A i, j \in CallIds : i # j /\ HasWritten(i) => ~HasRead(j)

----------------------------------------------------------------------------
(* Further claims about one row (specification SpecRow). *)

\* C23: whenever a row has a non-empty selected option, that option is one of
\* the row's markedOptions, for every row of fills and every ink floor,
\* selections made by the tolerant fallback included.
C23_SelectedIsMarked ==
    rowDetail.selected # "" =>
      \E i \in 1..Len(rowDetail.markedOptions) : rowDetail.markedOptions[i] = rowDetail.selected

\* C24: a row never has both a non-empty selected option and multipleMarks
\* true: when an option is selected, markedOptions holds at most one option.
C24_SelectedExcludesMultiple ==
    rowDetail.selected # "" =>
      ~rowDetail.multipleMarks /\ Len(rowDetail.markedOptions) <= 1

----------------------------------------------------------------------------
(* A further claim about one request (specification Spec). *)

\* C25: in every result markersFound is true and cornerPoints is a list of
\* four points exactly when cornerMode is "manual" or "auto"; for "skipped",
\* "manual_invalid", "manual_error" and "not_found" markersFound is false and
\* cornerPoints is absent.
C25_CornerMeta ==
    Returned =>
      /\ result.meta.cornerMode \in
           {"manual", "auto", "skipped", "manual_invalid", "manual_error", "not_found"}
      /\ (result.meta.markersFound /\ result.meta.cornerPoints = "4x2")
           <=> result.meta.cornerMode \in {"manual", "auto"}
      /\ result.meta.cornerMode \notin {"manual", "auto"} =>
           ~result.meta.markersFound /\ result.meta.cornerPoints = "None"

----------------------------------------------------------------------------
(* A claim about the ink score of a bubble (specification SpecFill). *)

BubbleOutside ==
    bubble.x < 0 \/ bubble.y < 0 \/ bubble.x >= bubble.width \/ bubble.y >= bubble.height

\* the raw signal, in hundred-thousandths
BubbleRaw == bubble.mean_ring - bubble.mean_inner

\* C21: the ink score is within [0, 1]; it is 0 when the centre lies outside
\* the image or the raw signal is at most 0.10, it is 1 when the raw signal is
\* at least 0.10 + 1/6, it is (raw - 0.10) * 6 in between, and it does not
\* decrease when the raw signal rises.
C21_InkScore ==
    bubbleFill # <<>> =>
      /\ bubbleFill[1] >= 0 /\ bubbleFill[1] <= 100000
      /\ BubbleOutside => bubbleFill[1] = 0
      /\ BubbleRaw <= 10000 => bubbleFill[1] = 0
      /\ ~BubbleOutside /\ 6 * (BubbleRaw - 10000) >= 100000 => bubbleFill[1] = 100000
      /\ ~BubbleOutside /\ BubbleRaw > 10000 /\ 6 * (BubbleRaw - 10000) < 100000 =>
           bubbleFill[1] = 6 * (BubbleRaw - 10000)
      /\ bubbleBefore # <<>> /\ bubbleBefore[1].ink <= BubbleRaw =>
           bubbleBefore[1].fill <= bubbleFill[1]

\* C21 witness: a bubble inside the image whose score rose from the linear
\* part to 1 when its core darkened
C21_Witness ==
    /\ bubbleFill # <<>>
    /\ bubbleBefore # <<>>
    /\ ~BubbleOutside
    /\ bubbleBefore[1].fill > 0
    /\ bubbleBefore[1].fill < bubbleFill[1]
    /\ bubbleFill[1] = 100000
    /\ bubbleBefore[1].ink < BubbleRaw

----------------------------------------------------------------------------
(* A claim about the rows kept (specification SpecWindow). *)

\* the window of 52 consecutive clusters that starts at the s-th cluster
Window(s) == SubSeq(yClusters, s, s + 51)

\* the gaps of a window, and how many times a gap occurs in it
WindowGap(s, i) == yClusters[s + i] - yClusters[s + i - 1]

GapCount(s, g) == Cardinality({i \in 1..51 : WindowGap(s, i) = g})

\* how uneven the spacing of a window is: the sum, over every two of its 51
\* gaps, of their squared difference, which orders windows as the variance does
RECURSIVE SumUnevenness(_, _)
SumUnevenness(s, pairs) ==
    IF pairs = {} THEN 0
    ELSE LET p == CHOOSE q \in pairs : TRUE
         IN  GapCount(s, p[1]) * GapCount(s, p[2]) * (p[1] - p[2]) * (p[1] - p[2])
               + SumUnevenness(s, pairs \ {p})

Unevenness(s) ==
    LET gaps == {WindowGap(s, i) : i \in 1..51}
    IN  SumUnevenness(s, {p \in gaps \X gaps : p[1] < p[2]})

WindowStarts == 1..(Len(yClusters) - 51)

\* C22: when there are more row clusters than the 52 expected, the rows kept
\* are 52 consecutive entries of the sorted clusters whose spacing variance is
\* minimal over all such windows, the earliest window on ties, in ascending
\* order.
C22_RowWindow ==
    yKept # <<>> /\ Len(yClusters) > 52 =>
      /\ \A i \in 1..(Len(yClusters) - 1) : yClusters[i] < yClusters[i + 1]
      /\ yKept[1].found
      /\ Len(yKept[1].rows) = 52
      /\ \A i \in 1..51 : yKept[1].rows[i] < yKept[1].rows[i + 1]
      /\ \E s \in WindowStarts :
            /\ yKept[1].rows = Window(s)
            /\ \A t \in WindowStarts : Unevenness(s) <= Unevenness(t)
            /\ \A t \in WindowStarts : t < s => Unevenness(s) < Unevenness(t)

\* C22 witness: spurious clusters on both sides, the window kept being neither
\* the first nor the last, and another window being just as even
C22_Witness ==
    /\ yKept # <<>>
    /\ Len(yClusters) > 54
    /\ yKept[1].found
    /\ yKept[1].rows # Window(1)
    /\ yKept[1].rows # Window(Len(yClusters) - 51)
    /\ \E s, t \in WindowStarts :
          s < t /\ yKept[1].rows = Window(s) /\ Unevenness(s) = Unevenness(t)

====
